---- MODULE Spec2Model ----
(***************************************************************************)
(* Model of the golf group signup service: src/models/golf.py (GolfEvent,  *)
(* Signup) and src/routes/golf.py (calendar generation, signup, cancel,    *)
(* waitlist promotion).                                                    *)
(*                                                                         *)
(* Dates are day numbers (day 0 is a Monday), instants are hour numbers    *)
(* (day * 24 + hour).  `now` is the UTC clock (datetime.utcnow()); the     *)
(* Pacific wall clock is the UTC clock minus PacificUtcOffset.             *)
(***************************************************************************)
EXTENDS Integers, Sequences, FiniteSets, TLC

VARIABLES
    now,        \* the UTC clock, in hours
    events,     \* table golf_event: sequence of rows, row i has id i
    signups,    \* table signup: sequence of rows, row i has id i
    proc,       \* per request handler: the locals of the request in flight
    response    \* the HTTP response returned last

vars == <<now, events, signups, proc, response>>

----------------------------------------------------------------------------
(* Bounds of the model *)

\* number of users that send requests (user ids 1..MaxUsers)
MaxUsers == 3
\* number of events that receive signup requests (the first events of week 2)
MaxEvents == 1
\* capacity of every event; the source creates events with max_players=20
\* (routes/golf.py:112), scaled down here so that a full event is reachable
MaxPlayers == 2
\* number of request handlers that run concurrently
MaxProcs == 2
\* signup ids a cancel request may name (ids beyond the table are not found)
MaxSignupId == 3
\* last event date the cutoff calculation is applied to (dates 14..MaxEventDate)
MaxEventDate == 34
\* number of events created from those dates
MaxCreated == 2
\* users and events of the runs with several events (event ids from 4 on),
\* where a cancel request may name any signup id up to users times events
MaxFrameUsers == 2
MaxFrameEvents == 2
\* hours of clock the rolling window is computed for, from Monday 00:00 Pacific
MaxClockHours == 336

(* Program constants *)

\* pytz 'US/Pacific' in standard time: UTC-8
PacificUtcOffset == 8
\* datetime.min.time().replace(hour=18)
CutoffHour == 18
\* datetime.min.time().replace(hour=8)
DeadlineHour == 8
\* datetime.min.time().replace(hour=18) of the Friday cutover
CutoverHour == 18

Users == 1..MaxUsers
Procs == 1..MaxProcs
\* ids of the events of week 2 (ids 1..3 are week 1, created first)
EventIds == 4..(3 + MaxEvents)
SignupIds == 1..MaxSignupId

\* the clock at the start: Monday of week 1, 08:00 Pacific
InitNow == (7 * 24) + 8 + PacificUtcOffset

----------------------------------------------------------------------------
(* Dates and instants *)

\* date.weekday(): 0 is Monday
weekday(d) == d % 7

\* datetime.combine(date, time(hour=h)): a naive wall-clock instant
combine(d, h) == (d * 24) + h

\* datetime.date() of a wall-clock instant
date_of(t) == t \div 24

\* pst.localize(naive): the UTC instant of a Pacific wall-clock instant
localize(wall) == wall + PacificUtcOffset

\* datetime.now(pst): the Pacific wall clock at UTC instant t
now_pst(t) == t - PacificUtcOffset

\* the Friday branch with the offset of the other days: 7 days, not 9
calculate_cutoff_datetime_friday_week(event_date) ==
    LET cutoff_date ==
            IF weekday(event_date) = 0 THEN event_date - 5
            ELSE event_date - 7
    IN  combine(cutoff_date, CutoffHour)

calculate_cutoff_datetime(event_date) ==
    LET cutoff_date ==
            IF weekday(event_date) = 0 THEN event_date - 5
            ELSE IF weekday(event_date) = 2 THEN event_date - 7
            ELSE IF weekday(event_date) = 4 THEN event_date - 9
            ELSE event_date - 7
    IN  combine(cutoff_date, CutoffHour)

calculate_cancellation_deadline(event_date) ==
    combine(event_date - 1, DeadlineHour)

\* the cutover test with > : at Friday 18:00 sharp the week is not advanced
get_rolling_weeks_after_cutover(t) ==
    LET today == date_of(now_pst(t))
        monday == today - weekday(today)
        friday_6pm_pst == combine(monday + 4, CutoverHour)
        current_week_monday ==
            IF now_pst(t) > friday_6pm_pst THEN monday + 7 ELSE monday
    IN  [week1 |-> [start |-> current_week_monday,
                    end |-> current_week_monday + 6],
         week2 |-> [start |-> current_week_monday + 7,
                    end |-> current_week_monday + 13]]

get_rolling_weeks(t) ==
    LET today == date_of(now_pst(t))
        monday == today - weekday(today)
        friday_6pm_pst == combine(monday + 4, CutoverHour)
        current_week_monday ==
            IF now_pst(t) >= friday_6pm_pst THEN monday + 7 ELSE monday
    IN  [week1 |-> [start |-> current_week_monday,
                    end |-> current_week_monday + 6],
         week2 |-> [start |-> current_week_monday + 7,
                    end |-> current_week_monday + 13]]

----------------------------------------------------------------------------
(* models/golf.py: GolfEvent *)

DayName(d) ==
    CASE weekday(d) = 0 -> "Monday"
      [] weekday(d) = 2 -> "Wednesday"
      [] weekday(d) = 4 -> "Friday"
      [] OTHER -> "other"

\* GolfEvent(date=..., day_of_week=..., max_players=..., cutoff_datetime=...,
\* cancellation_deadline=...); the cutoff is stored as a naive Pacific wall clock
GolfEvent(event_date) ==
    [date |-> event_date,
     day_of_week |-> DayName(event_date),
     max_players |-> MaxPlayers,
     cutoff_datetime |-> calculate_cutoff_datetime(event_date),
     cancellation_deadline |-> calculate_cancellation_deadline(event_date)]

\* the cutoff test with >= : a signup at the cutoff instant counts as past it
is_cutoff_passed_at_cutoff(ev, t) == t >= localize(ev.cutoff_datetime)

\* now_pst > cutoff_pst, both sides zone-aware
is_cutoff_passed(ev, t) == t > localize(ev.cutoff_datetime)

\* the deadline test with <= : a cancel at the deadline instant still passes
can_cancel_at_deadline(ev, t) == t <= ev.cancellation_deadline

\* datetime.utcnow() < self.cancellation_deadline
can_cancel(ev, t) == t < ev.cancellation_deadline

\* [s for s in self.signups if not s.is_waitlist and not s.is_cancelled]
confirmed_signups(db, e) ==
    {i \in DOMAIN db :
        db[i].event_id = e /\ ~db[i].is_waitlist /\ ~db[i].is_cancelled}

\* the waitlist without its event_id test: the rows waiting for any event
waitlist_signups_any_event(db, e) ==
    {i \in DOMAIN db : db[i].is_waitlist /\ ~db[i].is_cancelled}

\* the waitlist without its is_cancelled test: cancelled rows still wait
waitlist_signups_cancelled_too(db, e) ==
    {i \in DOMAIN db : db[i].event_id = e /\ db[i].is_waitlist}

\* [s for s in self.signups if s.is_waitlist and not s.is_cancelled]
waitlist_signups(db, e) ==
    {i \in DOMAIN db :
        db[i].event_id = e /\ db[i].is_waitlist /\ ~db[i].is_cancelled}

(* models/golf.py: Signup *)

\* Signup(user_id, event_id, is_waitlist), signup_date defaulting to utcnow
Signup(u, e, is_waitlist, t) ==
    [user_id |-> u, event_id |-> e, signup_date |-> t,
     is_waitlist |-> is_waitlist, is_cancelled |-> FALSE, cancelled_at |-> 0]

\* the table without its unique constraint: no insert is rejected
unique_user_event_missing(db, u, e) == FALSE

\* UniqueConstraint('user_id', 'event_id'): TRUE when inserting (u, e) is rejected
unique_user_event(db, u, e) ==
    \E i \in DOMAIN db : db[i].user_id = u /\ db[i].event_id = e

----------------------------------------------------------------------------
(* routes/golf.py: the queries *)

\* the query filters on another column and never finds the date
existing_event_never(tbl, event_date) == FALSE

\* GolfEvent.query.filter_by(date=event_date).first() finds a row
existing_event(tbl, event_date) ==
    \E i \in DOMAIN tbl : tbl[i].date = event_date

\* the three slot dates of both weeks, in the order the loops visit them
slot_dates(weeks) ==
    <<weeks.week1.start, weeks.week1.start + 2, weeks.week1.start + 4,
      weeks.week2.start, weeks.week2.start + 2, weeks.week2.start + 4>>

\* the lookup misses a user who has signed up before (the stored email is
\* normalized, the lookup key is not) and a second user row is created
user_id_of_missed(u) ==
    IF \E i \in DOMAIN signups : signups[i].user_id = u THEN MaxUsers + u ELSE u

\* User.query.filter_by(email=email).first(), created when absent: the id of
\* the user with (normalized) email u; users are numbered as their emails are
user_id_of(u) == u

\* Signup.query.filter_by(user_id, event_id, is_cancelled=False).first() finds a row
existing_signup(db, u, e) ==
    \E i \in DOMAIN db :
        db[i].user_id = u /\ db[i].event_id = e /\ ~db[i].is_cancelled

\* the capacity test off by one: a full event still confirms one more signup
signup_is_waitlist_off_by_one(db, ev, e, t) ==
    is_cutoff_passed(ev, t)
        \/ Cardinality(confirmed_signups(db, e)) > ev.max_players

\* is_waitlist = event.is_cutoff_passed or confirmed_signups >= event.max_players
signup_is_waitlist(db, ev, e, t) ==
    is_cutoff_passed(ev, t)
        \/ Cardinality(confirmed_signups(db, e)) >= ev.max_players

\* the query without its order_by: any waitlisted signup may come first
first_waitlist_signup_unordered(db, e) == waitlist_signups(db, e)

\* filter_by(event_id, is_waitlist=True, is_cancelled=False)
\* .order_by(Signup.signup_date).first(): the rows the query may return; rows
\* with equal signup_date are in no defined order
first_waitlist_signup(db, e) ==
    {i \in waitlist_signups(db, e) :
        \A j \in waitlist_signups(db, e) : db[i].signup_date <= db[j].signup_date}

----------------------------------------------------------------------------
(* HTTP responses *)

\* jsonify(...), status: the status code, the message or status string of the
\* body, and the number the body carries (signup_id, events), 0 when none
ResponseWith(code, body, n) == [code |-> code, body |-> body, n |-> n]

Response(code, body) == ResponseWith(code, body, 0)

NoResponse == Response(0, "none")

Idle == [op |-> "idle"]

TypeOK ==
    /\ now \in Nat
    /\ \A i \in DOMAIN events : events[i].date \in Nat
    /\ \A i \in DOMAIN signups :
          /\ signups[i].user_id \in Users
          /\ signups[i].is_waitlist \in BOOLEAN
          /\ signups[i].is_cancelled \in BOOLEAN

----------------------------------------------------------------------------
(* The clock *)

\* dates of the events that receive signup requests
TargetDates ==
    {slot_dates(get_rolling_weeks(InitNow))[k] : k \in EventIds}

\* the Friday 18:00 Pacific at which the window of InitNow advances
Cutover ==
    localize(combine(get_rolling_weeks(InitNow).week1.start + 4, CutoverHour))

\* the instants the clock visits after InitNow in the enrollment runs: for each
\* target event the hour of its signup cutoff, the hour after it and the hour of
\* its cancellation deadline
ClockInstants ==
    UNION {{localize(calculate_cutoff_datetime(d)),
            localize(calculate_cutoff_datetime(d)) + 1,
            calculate_cancellation_deadline(d)}
           : d \in TargetDates}

\* the instants the clock visits in the concurrent runs: for each target event
\* an hour past its signup cutoff and the hour of its cancellation deadline
CoarseInstants ==
    UNION {{localize(calculate_cutoff_datetime(d)) + 1,
            calculate_cancellation_deadline(d)}
           : d \in TargetDates}

\* the instants the clock visits in the calendar runs: the hour before and the
\* hour of the window cutover
WindowInstants == {Cutover - 1, Cutover}

Tick ==
    /\ \E t \in ClockInstants : t > now /\ now' = t
    /\ UNCHANGED <<events, signups, proc, response>>

TickCoarse ==
    /\ \E t \in CoarseInstants : t > now /\ now' = t
    /\ UNCHANGED <<events, signups, proc, response>>

TickWindow ==
    /\ \E t \in WindowInstants : t > now /\ now' = t
    /\ UNCHANGED <<events, signups, proc, response>>

----------------------------------------------------------------------------
(* routes/golf.py: generate_weekly_events, get_rolling_events *)

\* weeks = get_rolling_weeks(); the loops start
generate_begin(p, op) ==
    /\ proc[p] = Idle
    /\ proc' = [proc EXCEPT ![p] =
                    [op |-> op, i |-> 1, pending |-> <<>>,
                     dates |-> slot_dates(get_rolling_weeks(now))]]
    /\ UNCHANGED <<now, events, signups, response>>

\* one iteration of the loops: query the date, add an event when none exists
generate_query(p) ==
    /\ proc[p].op \in {"generate", "rolling"}
    /\ proc[p].i <= Len(proc[p].dates)
    /\ LET event_date == proc[p].dates[proc[p].i]
       IN  proc' = [proc EXCEPT
                ![p].i = @ + 1,
                ![p].pending =
                    IF existing_event(events, event_date) THEN @
                    ELSE Append(@, GolfEvent(event_date))]
    /\ UNCHANGED <<now, events, signups, response>>

\* db.session.commit(): the pending rows are inserted; golf_event has no
\* constraint on date
commit_events(tbl, pending) == tbl \o pending

\* events of the window, as get_rolling_events returns them
window_events(tbl, dates) ==
    {i \in DOMAIN tbl : tbl[i].date >= dates[1] /\ tbl[i].date <= dates[4] + 6}

generate_commit(p) ==
    /\ proc[p].op \in {"generate", "rolling"}
    /\ proc[p].i > Len(proc[p].dates)
    /\ events' = commit_events(events, proc[p].pending)
    /\ response' =
          IF proc[p].op = "generate"
          THEN ResponseWith(201, "Created events", Len(proc[p].pending))
          ELSE ResponseWith(200, "events",
                    Cardinality(window_events(events', proc[p].dates)))
    /\ proc' = [proc EXCEPT ![p] = Idle]
    /\ UNCHANGED <<now, signups>>

----------------------------------------------------------------------------
(* routes/golf.py: signup_for_event *)

\* lines 171-184: find the event, then look for an active signup of the user
signup_begin(p, u, e) ==
    /\ proc[p] = Idle
    /\ IF e \notin DOMAIN events
       THEN /\ response' = Response(404, "Event not found")
            /\ UNCHANGED proc
       ELSE IF existing_signup(signups, user_id_of(u), e)
       THEN /\ response' = Response(400, "You are already signed up for this event")
            /\ UNCHANGED proc
       ELSE /\ proc' = [proc EXCEPT ![p] =
                        [op |-> "signup", pc |-> "decide",
                         user_id |-> user_id_of(u), event_id |-> e,
                         is_waitlist |-> FALSE]]
            /\ UNCHANGED response
    /\ UNCHANGED <<now, events, signups>>

\* lines 186-196: count the confirmed signups, decide confirmed or waitlist
signup_decide(p) ==
    /\ proc[p].op = "signup"
    /\ proc[p].pc = "decide"
    /\ proc' = [proc EXCEPT
            ![p].pc = "commit",
            ![p].is_waitlist =
                signup_is_waitlist(signups, events[proc[p].event_id],
                                   proc[p].event_id, now)]
    /\ UNCHANGED <<now, events, signups, response>>

\* lines 198-219: insert and commit; the unique constraint may reject the row
signup_commit(p) ==
    /\ proc[p].op = "signup"
    /\ proc[p].pc = "commit"
    /\ IF unique_user_event(signups, proc[p].user_id, proc[p].event_id)
       THEN /\ response' = Response(400, "You are already signed up for this event")
            /\ UNCHANGED signups
       ELSE /\ signups' = Append(signups,
                    Signup(proc[p].user_id, proc[p].event_id,
                           proc[p].is_waitlist, now))
            /\ response' = ResponseWith(201,
                    IF proc[p].is_waitlist THEN "waitlist" ELSE "confirmed",
                    Len(signups) + 1)
    /\ proc' = [proc EXCEPT ![p] = Idle]
    /\ UNCHANGED <<now, events>>

----------------------------------------------------------------------------
(* routes/golf.py: cancel_signup, promote_from_waitlist *)

\* lines 224-233: load the signup, check cancelled and the deadline
cancel_begin(p, s) ==
    /\ proc[p] = Idle
    /\ IF s \notin DOMAIN signups
       THEN /\ response' = Response(404, "Signup not found")
            /\ UNCHANGED proc
       ELSE IF signups[s].is_cancelled
       THEN /\ response' = Response(400, "Signup is already cancelled")
            /\ UNCHANGED proc
       ELSE IF ~can_cancel(events[signups[s].event_id], now)
       THEN /\ response' = Response(400, "Cancellation deadline has passed")
            /\ UNCHANGED proc
       ELSE /\ proc' = [proc EXCEPT ![p] =
                        [op |-> "cancel", pc |-> "promote", signup_id |-> s,
                         event_id |-> signups[s].event_id,
                         is_waitlist |-> signups[s].is_waitlist,
                         cancelled_at |-> 0, waitlist_signup |-> 0]]
            /\ UNCHANGED response
    /\ UNCHANGED <<now, events, signups>>

\* the promotion that never finds a row: nobody leaves the waitlist
promote_from_waitlist_none(db, e) == {0}

\* promote_from_waitlist(event): the row to promote, 0 when the query finds none
promote_from_waitlist(db, e) ==
    IF first_waitlist_signup(db, e) = {} THEN {0}
    ELSE first_waitlist_signup(db, e)

\* lines 235-241: mark the signup cancelled in the session, and when it was
\* confirmed query the waitlist for the signup to promote
cancel_promote(p) ==
    /\ proc[p].op = "cancel"
    /\ proc[p].pc = "promote"
    /\ \E w \in (IF proc[p].is_waitlist THEN {0}
                 ELSE promote_from_waitlist(signups, proc[p].event_id)) :
          proc' = [proc EXCEPT ![p].pc = "commit",
                               ![p].cancelled_at = now,
                               ![p].waitlist_signup = w]
    /\ UNCHANGED <<now, events, signups, response>>

\* the commit without the promoted row: only the cancelled row is written
commit_cancel_cancelled_only(db, s, t, w) ==
    [i \in DOMAIN db |->
        IF i = s THEN [db[i] EXCEPT !.is_cancelled = TRUE, !.cancelled_at = t]
        ELSE db[i]]

\* the commit that writes the cancelled flag without cancelled_at
commit_cancel_no_timestamp(db, s, t, w) ==
    [i \in DOMAIN db |->
        IF i = s THEN [db[i] EXCEPT !.is_cancelled = TRUE]
        ELSE IF i = w THEN [db[i] EXCEPT !.is_waitlist = FALSE]
        ELSE db[i]]

\* the UPDATEs of db.session.commit(): the cancelled row by id, then the
\* promoted row by id
commit_cancel(db, s, t, w) ==
    [i \in DOMAIN db |->
        IF i = s THEN [db[i] EXCEPT !.is_cancelled = TRUE, !.cancelled_at = t]
        ELSE IF i = w THEN [db[i] EXCEPT !.is_waitlist = FALSE]
        ELSE db[i]]

\* line 243-245
cancel_commit(p) ==
    /\ proc[p].op = "cancel"
    /\ proc[p].pc = "commit"
    /\ signups' = commit_cancel(signups, proc[p].signup_id,
                                proc[p].cancelled_at, proc[p].waitlist_signup)
    /\ response' = Response(200, "Signup cancelled successfully")
    /\ proc' = [proc EXCEPT ![p] = Idle]
    /\ UNCHANGED <<now, events>>

----------------------------------------------------------------------------
(* The handlers run whole, one request at a time *)

AllIdle == \A p \in Procs : proc[p] = Idle

\* the rows the loops of a generation call add, reading table tbl
missing_events(tbl, dates) ==
    LET missing == {i \in DOMAIN dates : ~existing_event(tbl, dates[i])}
        RECURSIVE collect(_)
        collect(i) ==
            IF i > Len(dates) THEN <<>>
            ELSE IF i \in missing THEN <<GolfEvent(dates[i])>> \o collect(i + 1)
            ELSE collect(i + 1)
    IN  collect(1)

\* lines 105-117 for one date: compute cutoff and deadline, add the event
create_event(event_date) ==
    /\ AllIdle
    /\ Len(events) < MaxCreated
    /\ events' = Append(events, GolfEvent(event_date))
    /\ UNCHANGED <<now, signups, proc, response>>

generate_weekly_events ==
    /\ AllIdle
    /\ LET dates == slot_dates(get_rolling_weeks(now))
           pending == missing_events(events, dates)
       IN  /\ events' = commit_events(events, pending)
           /\ response' = ResponseWith(201, "Created events", Len(pending))
    /\ UNCHANGED <<now, signups, proc>>

get_rolling_events ==
    /\ AllIdle
    /\ LET dates == slot_dates(get_rolling_weeks(now))
           pending == missing_events(events, dates)
       IN  /\ events' = commit_events(events, pending)
           /\ response' = ResponseWith(200, "events",
                    Cardinality(window_events(events', dates)))
    /\ UNCHANGED <<now, signups, proc>>

signup_for_event(u, e) ==
    /\ AllIdle
    /\ IF e \notin DOMAIN events
       THEN /\ response' = Response(404, "Event not found")
            /\ UNCHANGED signups
       ELSE IF existing_signup(signups, user_id_of(u), e)
       THEN /\ response' = Response(400, "You are already signed up for this event")
            /\ UNCHANGED signups
       ELSE LET is_waitlist == signup_is_waitlist(signups, events[e], e, now)
            IN  IF unique_user_event(signups, user_id_of(u), e)
                THEN /\ response' =
                          Response(400, "You are already signed up for this event")
                     /\ UNCHANGED signups
                ELSE /\ signups' = Append(signups,
                            Signup(user_id_of(u), e, is_waitlist, now))
                     /\ response' = ResponseWith(201,
                            IF is_waitlist THEN "waitlist" ELSE "confirmed",
                            Len(signups) + 1)
    /\ UNCHANGED <<now, events, proc>>

cancel_signup(s) ==
    /\ AllIdle
    /\ IF s \notin DOMAIN signups
       THEN /\ response' = Response(404, "Signup not found")
            /\ UNCHANGED signups
       ELSE IF signups[s].is_cancelled
       THEN /\ response' = Response(400, "Signup is already cancelled")
            /\ UNCHANGED signups
       ELSE IF ~can_cancel(events[signups[s].event_id], now)
       THEN /\ response' = Response(400, "Cancellation deadline has passed")
            /\ UNCHANGED signups
       ELSE /\ \E w \in (IF signups[s].is_waitlist THEN {0}
                         ELSE promote_from_waitlist(signups, signups[s].event_id)) :
                  signups' = commit_cancel(signups, s, now, w)
            /\ response' = Response(200, "Signup cancelled successfully")
    /\ UNCHANGED <<now, events, proc>>

\* Signup.query.filter_by(event_id=event_id).order_by(Signup.signup_date).all():
\* the sequences of row ids the query may return; rows with equal signup_date
\* are in no defined order
all_signups(db, e) ==
    LET rows == {i \in DOMAIN db : db[i].event_id = e}
    IN  {q \in [1..Cardinality(rows) -> rows] :
            /\ \A a, b \in DOMAIN q : q[a] = q[b] => a = b
            /\ \A a, b \in DOMAIN q :
                  a < b => db[q[a]].signup_date <= db[q[b]].signup_date}

\* the loop body with the waitlist test first: a row cancelled while it
\* waited is listed as waiting
roster_list_waitlist_first(row) ==
    IF row.is_waitlist THEN "waitlist_players"
    ELSE IF row.is_cancelled THEN "cancelled_players"
    ELSE "confirmed_players"

\* lines 334-340: the list the loop appends a row to
roster_list(row) ==
    IF row.is_cancelled THEN "cancelled_players"
    ELSE IF row.is_waitlist THEN "waitlist_players"
    ELSE "confirmed_players"

\* lines 321-340: one of the three lists (of signup ids) built from query
\* result q
roster_players(db, q, list) ==
    SelectSeq(q, LAMBDA i : roster_list(db[i]) = list)

\* GET /events/<id>/roster; the response is modelled by its total_signups
get_event_roster(e) ==
    /\ AllIdle
    /\ IF e \notin DOMAIN events
       THEN response' = Response(404, "Event not found")
       ELSE \E q \in all_signups(signups, e) :
                response' = ResponseWith(200, "roster",
                                Len(roster_players(signups, q, "confirmed_players")))
    /\ UNCHANGED <<now, events, signups, proc>>

\* signup_for_event when send_signup_confirmation_email raises (line 203): the
\* row was committed at line 200, the handler of Exception rolls back a
\* session that holds nothing of the signup and answers 500
signup_for_event_email_fails(u, e) ==
    /\ AllIdle
    /\ e \in DOMAIN events
    /\ ~existing_signup(signups, user_id_of(u), e)
    /\ ~unique_user_event(signups, user_id_of(u), e)
    /\ signups' = Append(signups,
            Signup(user_id_of(u), e,
                   signup_is_waitlist(signups, events[e], e, now), now))
    /\ response' = Response(500, "Signup failed")
    /\ UNCHANGED <<now, events, proc>>

\* cancel_signup when send_promotion_email raises (line 258): the exception
\* leaves promote_from_waitlist and cancel_signup before the commit of line
\* 243 is reached, so the session with the cancelled and the promoted row is
\* discarded and the request answers 500
cancel_signup_email_fails(s) ==
    /\ AllIdle
    /\ s \in DOMAIN signups
    /\ ~signups[s].is_cancelled
    /\ can_cancel(events[signups[s].event_id], now)
    /\ ~signups[s].is_waitlist
    /\ first_waitlist_signup(signups, signups[s].event_id) # {}
    /\ response' = Response(500, "Internal Server Error")
    /\ UNCHANGED <<now, events, signups, proc>>

----------------------------------------------------------------------------
(* Specifications *)

\* the empty store, as db.create_all() leaves it
Init ==
    /\ now = InitNow
    /\ events = <<>>
    /\ signups = <<>>
    /\ proc = [p \in Procs |-> Idle]
    /\ response = NoResponse

\* requests are handled one at a time, none overlapping another
NextSerial ==
    \/ Tick
    \/ TickWindow
    \/ generate_weekly_events
    \/ get_rolling_events
    \/ \E u \in Users, e \in EventIds : signup_for_event(u, e)
    \/ \E s \in SignupIds : cancel_signup(s)
    \/ \E u \in Users, e \in EventIds : signup_for_event_email_fails(u, e)
    \/ \E s \in SignupIds : cancel_signup_email_fails(s)
    \/ \E e \in EventIds : get_event_roster(e)

SpecSerial == Init /\ [][NextSerial]_vars

\* the store after the first calendar generation at InitNow
InitGenerated ==
    /\ now = InitNow
    /\ events = commit_events(<<>>,
            missing_events(<<>>, slot_dates(get_rolling_weeks(InitNow))))
    /\ signups = <<>>
    /\ proc = [p \in Procs |-> Idle]
    /\ response = NoResponse

\* MaxProcs handlers run signup and cancel requests concurrently
Next ==
    \/ TickCoarse
    \/ \E p \in Procs, u \in Users, e \in EventIds : signup_begin(p, u, e)
    \/ \E p \in Procs : signup_decide(p)
    \/ \E p \in Procs : signup_commit(p)
    \/ \E p \in Procs, s \in SignupIds : cancel_begin(p, s)
    \/ \E p \in Procs : cancel_promote(p)
    \/ \E p \in Procs : cancel_commit(p)

Spec == InitGenerated /\ [][Next]_vars

\* MaxProcs handlers run calendar generation concurrently, from the empty store
NextGen ==
    \/ TickWindow
    \/ \E p \in Procs, op \in {"generate", "rolling"} : generate_begin(p, op)
    \/ \E p \in Procs : generate_query(p)
    \/ \E p \in Procs : generate_commit(p)

SpecGen == Init /\ [][NextGen]_vars

\* a full event with a waitlist: MaxPlayers + 2 users signed up for the first
\* target event one hour after another from InitNow, before its cutoff; the
\* first MaxPlayers are confirmed, the last two wait
InitCancel ==
    /\ now = InitNow + MaxPlayers + 1
    /\ events = commit_events(<<>>,
            missing_events(<<>>, slot_dates(get_rolling_weeks(InitNow))))
    /\ signups = [i \in 1..(MaxPlayers + 2) |->
                    Signup(i, 4, i > MaxPlayers, InitNow + i - 1)]
    /\ proc = [p \in Procs |-> Idle]
    /\ response = NoResponse

\* MaxProcs handlers run cancel requests concurrently
NextCancel ==
    \/ TickCoarse
    \/ \E p \in Procs, s \in SignupIds : cancel_begin(p, s)
    \/ \E p \in Procs : cancel_promote(p)
    \/ \E p \in Procs : cancel_commit(p)

SpecCancel == InitCancel /\ [][NextCancel]_vars

\* requests run one at a time on the first MaxFrameEvents events of week 2,
\* from the store after the first calendar generation
NextFrame ==
    \/ TickCoarse
    \/ \E u \in 1..MaxFrameUsers, e \in 4..(3 + MaxFrameEvents) :
            signup_for_event(u, e)
    \/ \E s \in 1..(MaxFrameUsers * MaxFrameEvents) : cancel_signup(s)

SpecFrame == InitGenerated /\ [][NextFrame]_vars

\* the dates the cutoff calculation is applied to: every weekday, three weeks
EventDateInputs == 14..MaxEventDate

\* events are created for any date, from the empty store
NextCutoff == \E d \in EventDateInputs : create_event(d)

SpecCutoff == Init /\ [][NextCutoff]_vars

\* the empty store at any hour of two weeks, from Monday 00:00 Pacific
InitCalendar ==
    /\ now \in (InitNow - 8)..(InitNow - 8 + MaxClockHours)
    /\ events = <<>>
    /\ signups = <<>>
    /\ proc = [p \in Procs |-> Idle]
    /\ response = NoResponse

\* the calendar is generated at that hour
NextCalendar ==
    \/ generate_weekly_events
    \/ get_rolling_events

SpecCalendar == InitCalendar /\ [][NextCalendar]_vars

----------------------------------------------------------------------------
(* The claims *)

\* the enrollments of event e that are neither cancelled nor waitlisted
Confirmed(e) ==
    {i \in DOMAIN signups :
        /\ signups[i].event_id = e
        /\ signups[i].is_cancelled = FALSE
        /\ signups[i].is_waitlist = FALSE}

\* the enrollments of event e that are waitlisted and not cancelled
Waitlisted(e) ==
    {i \in DOMAIN signups :
        /\ signups[i].event_id = e
        /\ signups[i].is_cancelled = FALSE
        /\ signups[i].is_waitlist = TRUE}

\* the enrollments of user u for event e that are not cancelled
Active(u, e) ==
    {i \in DOMAIN signups :
        /\ signups[i].user_id = u
        /\ signups[i].event_id = e
        /\ signups[i].is_cancelled = FALSE}

\* the cancelled enrollments of user u for event e
Cancelled(u, e) ==
    {i \in DOMAIN signups :
        /\ signups[i].user_id = u
        /\ signups[i].event_id = e
        /\ signups[i].is_cancelled = TRUE}

\* C1: in a serial sequence of signups and cancels, the number of enrollments
\* of an event that are neither cancelled nor waitlisted never exceeds the
\* event's capacity.
C1_ConfirmedWithinCapacity ==
    \A e \in DOMAIN events :
        Cardinality(Confirmed(e)) <= events[e].max_players

\* C1 witness: an event that is full after a cancel: a confirmed enrollment
\* was cancelled when every enrollment confirmed now had already signed up, so
\* one of them came off the waitlist
C1_Witness ==
    \E e \in DOMAIN events :
        /\ Cardinality(Confirmed(e)) = events[e].max_players
        /\ \E s \in DOMAIN signups :
              /\ signups[s].event_id = e
              /\ signups[s].is_cancelled /\ ~signups[s].is_waitlist
              /\ signups[s].signup_date < signups[s].cancelled_at
              /\ \A i \in Confirmed(e) :
                    signups[i].signup_date < signups[s].cancelled_at

\* C2: when several signups of distinct users run concurrently on an event
\* with one free seat, the confirmed enrollments never outnumber the capacity.
C2_ConcurrentSignupsWithinCapacity ==
    ~ \E e \in DOMAIN events :
        Cardinality(Confirmed(e)) > events[e].max_players

\* C3: a successful cancel of a confirmed enrollment of an event that has a
\* waitlist promotes exactly one enrollment, a waitlisted one of that event
\* with the earliest creation timestamp.
C3_CancelPromotesEarliest ==
    [][\A s \in SignupIds :
        (/\ cancel_signup(s)
         /\ response'.code = 200
         /\ ~signups[s].is_waitlist
         /\ Waitlisted(signups[s].event_id) # {})
        => \E w \in Waitlisted(signups[s].event_id) :
              /\ \A j \in Waitlisted(signups[s].event_id) :
                    signups[w].signup_date <= signups[j].signup_date
              /\ signups'[w] = [signups[w] EXCEPT !.is_waitlist = FALSE]
              /\ \A i \in DOMAIN signups :
                    (i # w /\ i # s) => signups'[i] = signups[i]
              /\ DOMAIN signups' = DOMAIN signups]_vars

\* C3 witness: a cancel just succeeded on a confirmed enrollment while two
\* enrollments of different age were waiting; the older one is now confirmed,
\* the younger one still waits
C3_Witness ==
    /\ response = Response(200, "Signup cancelled successfully")
    /\ \E s, w, x \in DOMAIN signups :
          /\ signups[s].is_cancelled /\ ~signups[s].is_waitlist
          /\ signups[s].cancelled_at = now
          /\ signups[w].event_id = signups[s].event_id
          /\ signups[x].event_id = signups[s].event_id
          /\ ~signups[w].is_cancelled /\ ~signups[w].is_waitlist
          /\ ~signups[x].is_cancelled /\ signups[x].is_waitlist
          /\ is_cutoff_passed(events[signups[w].event_id], signups[w].signup_date)
          /\ signups[w].signup_date < signups[x].signup_date
          /\ signups[x].signup_date < now

\* C4: a cancel of an enrollment that is not cancelled succeeds when the clock
\* is strictly before the event's cancellation deadline; at or after the
\* deadline it fails with the deadline error and changes no record.
C4_CancelDeadline ==
    [][\A s \in SignupIds :
        (/\ s \in DOMAIN signups
         /\ cancel_signup(s)
         /\ ~signups[s].is_cancelled)
        => IF now < events[signups[s].event_id].cancellation_deadline
           THEN /\ response' = Response(200, "Signup cancelled successfully")
                /\ signups'[s].is_cancelled
                /\ signups'[s].cancelled_at = now
           ELSE /\ response' = Response(400, "Cancellation deadline has passed")
                /\ signups' = signups
                /\ events' = events]_vars

\* C4 witness: a cancel was refused at the deadline instant itself, and the
\* enrollment it named is still active
C4_Witness ==
    /\ response = Response(400, "Cancellation deadline has passed")
    /\ \E i \in DOMAIN signups :
          /\ ~signups[i].is_cancelled
          /\ now = events[signups[i].event_id].cancellation_deadline
          /\ \A j \in DOMAIN signups : ~signups[j].is_cancelled

\* C5: a signup while the user has an enrollment of the event that is not
\* cancelled (confirmed or waitlisted) fails with the duplicate error, creates
\* no enrollment and changes none.
C5_DuplicateSignupRejected ==
    [][\A u \in Users, e \in EventIds :
        (signup_for_event(u, e) /\ Active(u, e) # {})
        => /\ response' =
                Response(400, "You are already signed up for this event")
           /\ signups' = signups]_vars

\* C5 witness: the duplicate error was returned when no enrollment had ever
\* been cancelled, while a waitlisted and a confirmed enrollment are active
C5_Witness ==
    /\ response = Response(400, "You are already signed up for this event")
    /\ \A i \in DOMAIN signups : ~signups[i].is_cancelled
    /\ \E i, j \in DOMAIN signups :
          signups[i].is_waitlist /\ ~signups[j].is_waitlist

\* C6: after a user's enrollment for an event was cancelled, a later signup of
\* the same user for the same event succeeds and creates a fresh enrollment,
\* the earlier record staying cancelled.
C6_SignupAfterCancelSucceeds ==
    [][\A u \in Users, e \in EventIds :
        (/\ signup_for_event(u, e)
         /\ Cancelled(u, e) # {}
         /\ Active(u, e) = {})
        => /\ response'.code = 201
           /\ Len(signups') = Len(signups) + 1
           /\ signups'[Len(signups')].user_id = u
           /\ signups'[Len(signups')].event_id = e
           /\ ~signups'[Len(signups')].is_cancelled
           /\ \A i \in DOMAIN signups : signups'[i] = signups[i]]_vars

\* C7: for every (user, event) pair at most one enrollment is not cancelled,
\* also when signups of the same pair run concurrently.
C7_OneActivePerUserEvent ==
    \A i, j \in DOMAIN signups :
        (/\ signups[i].user_id = signups[j].user_id
         /\ signups[i].event_id = signups[j].event_id
         /\ ~signups[i].is_cancelled
         /\ ~signups[j].is_cancelled)
        => i = j

\* C7 witness: two requests of the same user for the same event both passed
\* the existing-signup check; one has inserted its row, the other is about to
\* commit
C7_Witness ==
    \E p \in Procs :
        /\ proc[p].op = "signup"
        /\ proc[p].pc = "commit"
        /\ Active(proc[p].user_id, proc[p].event_id) # {}

\* the UTC instant of the signup cutoff of event e
CutoffInstant(e) == events[e].cutoff_datetime + PacificUtcOffset

\* C8 as stated: a successful signup creates a waitlisted enrollment iff the
\* clock is at or past the event's signup cutoff (equality included) or the
\* event's confirmed count is at or above capacity.
C8_WaitlistAtOrPastCutoff ==
    [][\A u \in Users, e \in EventIds :
        (signup_for_event(u, e) /\ response'.code = 201)
        => (signups'[Len(signups')].is_waitlist
            <=> (\/ now >= CutoffInstant(e)
                 \/ Cardinality(Confirmed(e)) >= events[e].max_players))]_vars

\* C8 as amended: a successful signup creates a waitlisted enrollment iff the
\* clock is strictly past the event's signup cutoff or the event's confirmed
\* count is at or above capacity; otherwise the new enrollment is confirmed.
C8_WaitlistPastCutoff ==
    [][\A u \in Users, e \in EventIds :
        (signup_for_event(u, e) /\ response'.code = 201)
        => /\ Len(signups') = Len(signups) + 1
           /\ signups'[Len(signups')].is_waitlist
                <=> (\/ now > CutoffInstant(e)
                     \/ Cardinality(Confirmed(e)) >= events[e].max_players)
           /\ response'.body =
                IF signups'[Len(signups')].is_waitlist THEN "waitlist"
                ELSE "confirmed"]_vars

\* C8 witness: one enrollment was confirmed at the cutoff instant itself, and
\* a later one is waitlisted past the cutoff although a seat is free
C8_Witness ==
    \E i, j \in DOMAIN signups :
        /\ signups[i].event_id = signups[j].event_id
        /\ signups[i].signup_date = CutoffInstant(signups[i].event_id)
        /\ ~signups[i].is_waitlist /\ ~signups[i].is_cancelled
        /\ signups[j].signup_date > CutoffInstant(signups[j].event_id)
        /\ signups[j].is_waitlist /\ ~signups[j].is_cancelled
        /\ Cardinality(Confirmed(signups[i].event_id))
              < events[signups[i].event_id].max_players
        /\ response = ResponseWith(201, "waitlist", j)

\* the first day of the rolling window at instant t
WindowStart(t) == get_rolling_weeks(t).week1.start

\* the Monday, Wednesday and Friday dates of the two window weeks at instant t
WindowSlotDates(t) ==
    {d \in WindowStart(t)..(WindowStart(t) + 13) : d % 7 \in {0, 2, 4}}

\* the dates that have an event
EventDates(tbl) == {tbl[i].date : i \in DOMAIN tbl}

\* C9: calendar generation is idempotent: a call on a store with no event in
\* the window creates exactly the six Mon/Wed/Fri dates of the two window
\* weeks; every call leaves the six dates present; a call on a store that has
\* the six dates (as a second call for the same now finds it) creates zero
\* events and leaves the event table unchanged.
C9_GenerationIdempotent ==
    [][(/\ response'.body \in {"Created events", "events"}
        /\ (generate_weekly_events \/ get_rolling_events))
        => /\ (EventDates(events) \cap WindowStart(now)..(WindowStart(now) + 13) = {})
                => /\ Len(events') = Len(events) + 6
                   /\ {events'[i].date : i \in (Len(events) + 1)..Len(events')}
                        = WindowSlotDates(now)
                   /\ generate_weekly_events => response'.n = 6
           /\ SubSeq(events', 1, Len(events)) = events
           /\ WindowSlotDates(now) \subseteq EventDates(events')
           /\ (WindowSlotDates(now) \subseteq EventDates(events))
                => /\ events' = events
                   /\ generate_weekly_events => response'.n = 0]_vars

\* C9 witness: at the clock of the first call, which created the six events, a
\* second call has returned having created none
C9_Witness ==
    /\ now = InitNow
    /\ Len(events) = 6
    /\ EventDates(events) = WindowSlotDates(InitNow)
    /\ response = ResponseWith(201, "Created events", 0)

\* C10: there is at most one event per calendar date, also when generation
\* calls run concurrently.
C10_OneEventPerDate ==
    \A i, j \in DOMAIN events :
        events[i].date = events[j].date => i = j

C12_RollingWindow ==
    LET pacific == now - PacificUtcOffset
        monday == (pacific \div 24) - ((pacific \div 24) % 7)
        start == IF pacific < ((monday + 4) * 24) + 18 THEN monday
                 ELSE monday + 7
    IN  /\ start % 7 = 0
        /\ get_rolling_weeks(now).week1.start = start
        /\ get_rolling_weeks(now).week1.end = start + 6
        /\ get_rolling_weeks(now).week2.start = start + 7
        /\ get_rolling_weeks(now).week2.end = start + 13
        /\ (Len(events) > 0)
              => {events[i].date : i \in DOMAIN events}
                    = {start, start + 2, start + 4, start + 7, start + 9, start + 11}

\* C12 witness: at Friday 18:00 Pacific sharp the calendar was generated and
\* its first event is on the Monday three days later
C12_Witness ==
    /\ (now - PacificUtcOffset) % 24 = 18
    /\ ((now - PacificUtcOffset) \div 24) % 7 = 4
    /\ Len(events) = 6
    /\ events[1].date = ((now - PacificUtcOffset) \div 24) + 3
    /\ response = ResponseWith(201, "Created events", 6)

\* the enrollments of event e, cancelled ones included
Enrollments(e) == {i \in DOMAIN signups : signups[i].event_id = e}

\* C13: on a full event whose enrollments were all created before the cutoff
\* and that has a waitlist, a successful cancel of a confirmed enrollment
\* leaves the confirmed count equal to the capacity: the cancelled record is
\* cancelled and the earliest waitlisted enrollment is confirmed.
C13_CancelKeepsEventFull ==
    [][\A s \in SignupIds :
        (/\ response'.code = 200
         /\ cancel_signup(s)
         /\ ~signups[s].is_waitlist
         /\ Cardinality(Confirmed(signups[s].event_id))
                = events[signups[s].event_id].max_players
         /\ Waitlisted(signups[s].event_id) # {}
         /\ \A i \in Enrollments(signups[s].event_id) :
                signups[i].signup_date < CutoffInstant(signups[s].event_id))
        => /\ Cardinality({i \in DOMAIN signups' :
                    /\ signups'[i].event_id = signups[s].event_id
                    /\ ~signups'[i].is_cancelled
                    /\ ~signups'[i].is_waitlist})
                = events[signups[s].event_id].max_players
           /\ signups'[s].is_cancelled
           /\ ~signups'[s].is_waitlist
           /\ \E w \in Waitlisted(signups[s].event_id) :
                 /\ \A j \in Waitlisted(signups[s].event_id) :
                       signups[w].signup_date <= signups[j].signup_date
                 /\ ~signups'[w].is_waitlist
                 /\ ~signups'[w].is_cancelled]_vars

\* C13 witness: capacity plus one users signed up before the cutoff, the first
\* of them has just cancelled, and the event is full again with the last one
C13_Witness ==
    /\ response = Response(200, "Signup cancelled successfully")
    /\ \E e \in DOMAIN events :
          /\ Cardinality(Enrollments(e)) = events[e].max_players + 1
          /\ \A i \in Enrollments(e) : signups[i].signup_date < CutoffInstant(e)
          /\ Cardinality(Confirmed(e)) = events[e].max_players
          /\ \E s \in Enrollments(e) :
                /\ \A i \in Enrollments(e) : s <= i
                /\ signups[s].is_cancelled /\ ~signups[s].is_waitlist
                /\ signups[s].cancelled_at = now
                /\ Enrollments(e) \ {s} = Confirmed(e)

\* C14: cancelled is terminal: a step of any request leaves the cancelled
\* flag, the waitlist flag and the cancellation timestamp of every cancelled
\* enrollment as they are, and a cancel request on a cancelled enrollment
\* fails with the already-cancelled error.
C14_CancelledIsTerminal ==
    [][/\ \A i \in DOMAIN signups :
            signups[i].is_cancelled
            => /\ i \in DOMAIN signups'
               /\ signups'[i].is_cancelled
               /\ signups'[i].is_waitlist = signups[i].is_waitlist
               /\ signups'[i].cancelled_at = signups[i].cancelled_at
       /\ \A s \in SignupIds :
            (/\ s \in DOMAIN signups
             /\ signups[s].is_cancelled
             /\ cancel_signup(s))
            => /\ response' = Response(400, "Signup is already cancelled")
               /\ signups' = signups]_vars

\* C14 witness: a cancel request on a cancelled enrollment was refused after
\* the clock moved on; an enrollment cancelled while waitlisted is still
\* waitlisted after a confirmed one was cancelled later
C14_Witness ==
    /\ response = Response(400, "Signup is already cancelled")
    /\ \E i, j \in DOMAIN signups :
          /\ signups[i].is_cancelled /\ signups[i].is_waitlist
          /\ signups[j].is_cancelled /\ ~signups[j].is_waitlist
          /\ signups[i].event_id = signups[j].event_id
          /\ signups[i].cancelled_at < signups[j].cancelled_at
          /\ signups[j].cancelled_at < now

\* C15: a failure of notification delivery does not unwind the transition:
\* when the signup notification fails the new enrollment is stored, and when
\* the promotion notification fails during a cancel the enrollment is
\* cancelled and a waitlisted enrollment of the event is promoted all the same.
C15_NotificationFailureKeepsTransition ==
    [][/\ \A u \in Users, e \in EventIds :
            signup_for_event_email_fails(u, e)
            => /\ Len(signups') = Len(signups) + 1
               /\ signups'[Len(signups')].user_id = u
               /\ signups'[Len(signups')].event_id = e
               /\ ~signups'[Len(signups')].is_cancelled
       /\ \A s \in SignupIds :
            cancel_signup_email_fails(s)
            => /\ signups'[s].is_cancelled
               /\ \E w \in Waitlisted(signups[s].event_id) :
                     ~signups'[w].is_waitlist]_vars

\* the members of sequence q
Members(q) == {q[k] : k \in DOMAIN q}

\* sequence q of enrollments has no repetition and ascends by creation timestamp
AscendingByCreation(q) ==
    \A a, b \in DOMAIN q :
        a < b => (q[a] # q[b]
                  /\ signups[q[a]].signup_date <= signups[q[b]].signup_date)

\* C16: the roster request changes no record, and the three lists it builds
\* (from the records as the request found and left them) partition the
\* enrollments of the event: the confirmed list holds exactly
\* those neither cancelled nor waitlisted, the waitlist exactly those
\* waitlisted and not cancelled, the cancelled list exactly the cancelled
\* ones, each list once per enrollment and ascending by creation timestamp.
C16_RosterPartitions ==
    /\ [][\A e \in EventIds :
            (/\ response'.body = "roster"
             /\ now' = now
             /\ get_event_roster(e))
            => /\ signups' = signups
               /\ events' = events
               /\ response'.n = Cardinality(Confirmed(e))]_vars
    /\ [](response.body = "roster"
            => \A e \in EventIds : \A q \in all_signups(signups, e) :
                 /\ Members(roster_players(signups, q, "confirmed_players"))
                       = Confirmed(e)
                 /\ Members(roster_players(signups, q, "waitlist_players"))
                       = Waitlisted(e)
                 /\ Members(roster_players(signups, q, "cancelled_players"))
                       = {i \in Enrollments(e) : signups[i].is_cancelled}
                 /\ AscendingByCreation(
                       roster_players(signups, q, "confirmed_players"))
                 /\ AscendingByCreation(
                       roster_players(signups, q, "waitlist_players"))
                 /\ AscendingByCreation(
                       roster_players(signups, q, "cancelled_players")))

\* C16 witness: a roster was returned for an event with one confirmed
\* enrollment, one waitlisted and one cancelled while it waited
C16_Witness ==
    /\ response = ResponseWith(200, "roster", 1)
    /\ \E e \in DOMAIN events :
          /\ Cardinality(Confirmed(e)) = 1
          /\ Cardinality(Waitlisted(e)) = 1
          /\ \E i \in Enrollments(e) :
                signups[i].is_cancelled /\ signups[i].is_waitlist

\* the enrollments that were confirmed, and those that waited, before the
\* concurrent cancel requests began
InitiallyConfirmed == {i \in DOMAIN signups : i <= MaxPlayers}
InitiallyWaitlisted == {i \in DOMAIN signups : i > MaxPlayers}

\* C17: when the cancel requests for the confirmed enrollments of a full event
\* with as many waitlisted enrollments have all returned, however they
\* overlapped, the state is that of the cancels in some serial order: each
\* cancel promoted its own waitlisted enrollment, so nobody waits.
C17_ConcurrentCancelsPromoteDistinct ==
    (/\ \A p \in Procs : proc[p].op = "idle"
     /\ {i \in DOMAIN signups : signups[i].is_cancelled} = InitiallyConfirmed)
    => \A w \in InitiallyWaitlisted :
          ~signups[w].is_waitlist /\ ~signups[w].is_cancelled

\* C18: two overlapping cancel requests for the same confirmed enrollment
\* promote at most one waitlisted enrollment between them: no more waitlisted
\* enrollments are promoted than confirmed enrollments are cancelled, and the
\* confirmed count stays within the capacity.
C18_DoubleCancelPromotesOnce ==
    /\ Cardinality({w \in InitiallyWaitlisted : ~signups[w].is_waitlist})
          <= Cardinality({i \in DOMAIN signups :
                signups[i].is_cancelled /\ ~signups[i].is_waitlist})
    /\ \A e \in DOMAIN events :
          Cardinality(Confirmed(e)) <= events[e].max_players

\* C19: the promotion order is total: a successful cancel of a confirmed
\* enrollment promotes the waitlisted enrollment of the event with the
\* earliest creation timestamp and, among those with that timestamp, the
\* smallest identity.
C19_PromotionTieBreaksByIdentity ==
    [][\A s \in SignupIds :
        (/\ response'.code = 200
         /\ cancel_signup(s)
         /\ ~signups[s].is_waitlist
         /\ Waitlisted(signups[s].event_id) # {})
        => \E w \in Waitlisted(signups[s].event_id) :
              /\ \A j \in Waitlisted(signups[s].event_id) :
                    \/ signups[w].signup_date < signups[j].signup_date
                    \/ /\ signups[w].signup_date = signups[j].signup_date
                       /\ w <= j
              /\ ~signups'[w].is_waitlist]_vars

\* C20: a successful cancel changes at most two enrollments: the one it
\* cancels and, only when that one was confirmed, one waitlisted enrollment
\* of the same event, which becomes confirmed; a cancel of a waitlisted
\* enrollment changes no other enrollment; no enrollment is added or removed,
\* enrollments of other events and all events are unchanged.
C20_CancelFrame ==
    [][\A s \in 1..(MaxFrameUsers * MaxFrameEvents) :
        (/\ response'.code = 200
         /\ cancel_signup(s))
        => /\ events' = events
           /\ DOMAIN signups' = DOMAIN signups
           /\ signups'[s].is_cancelled
           /\ Cardinality({i \in DOMAIN signups : signups'[i] # signups[i]}) <= 2
           /\ \A i \in DOMAIN signups \ {s} :
                 signups'[i] # signups[i]
                 => /\ ~signups[s].is_waitlist
                    /\ signups[i].event_id = signups[s].event_id
                    /\ signups[i].is_waitlist
                    /\ ~signups[i].is_cancelled
                    /\ signups'[i] = [signups[i] EXCEPT !.is_waitlist = FALSE]]_vars

\* C20 witness: a cancel of a confirmed enrollment has just promoted the
\* waitlisted enrollment of its event, while an enrollment created before
\* that one for another event still waits
C20_Witness ==
    /\ response = Response(200, "Signup cancelled successfully")
    /\ \E s, w, x \in DOMAIN signups :
          /\ signups[s].is_cancelled /\ ~signups[s].is_waitlist
          /\ signups[s].cancelled_at = now
          /\ signups[w].event_id = signups[s].event_id
          /\ ~signups[w].is_waitlist /\ ~signups[w].is_cancelled
          /\ signups[w].signup_date > CutoffInstant(signups[w].event_id)
          /\ signups[x].event_id # signups[s].event_id
          /\ signups[x].is_waitlist /\ ~signups[x].is_cancelled
          /\ x < w

\* C21: with requests run one at a time, an event whose enrollments were all
\* created before its signup cutoff and that has a waitlisted enrollment
\* that is not cancelled has as many confirmed enrollments as its capacity:
\* no seat is free while someone waits.
C21_NoFreeSeatWhileWaiting ==
    \A e \in DOMAIN events :
        (/\ \A i \in Enrollments(e) : signups[i].signup_date < CutoffInstant(e)
         /\ Waitlisted(e) # {})
        => Cardinality(Confirmed(e)) = events[e].max_players

\* C21 witness: before the cutoff one user waits on a full event, and a cancel
\* of a confirmed enrollment has just failed on its promotion notification:
\* the event is still full and the user still waits
C21_Witness ==
    \E e \in DOMAIN events :
        /\ now < CutoffInstant(e)
        /\ Cardinality(Enrollments(e)) = events[e].max_players + 1
        /\ Waitlisted(e) # {}
        /\ Cardinality(Confirmed(e)) = events[e].max_players
        /\ response = Response(500, "Internal Server Error")

\* the state of an enrollment record
EnrollmentState(row) ==
    IF row.is_cancelled THEN "Cancelled"
    ELSE IF row.is_waitlist THEN "Waitlisted"
    ELSE "Confirmed"

\* C22: an enrollment is created Confirmed or Waitlisted with no cancellation
\* timestamp; afterwards it stays, keeps its user, event and creation
\* timestamp, and its state only goes from Waitlisted to Confirmed or from
\* Confirmed or Waitlisted to Cancelled; its waitlist flag is never set once
\* it is clear; it has a cancellation timestamp exactly when its cancelled
\* flag is set.
C22_EnrollmentTransitions ==
    [][/\ \A i \in DOMAIN signups :
            /\ i \in DOMAIN signups'
            /\ signups'[i].user_id = signups[i].user_id
            /\ signups'[i].event_id = signups[i].event_id
            /\ signups'[i].signup_date = signups[i].signup_date
            /\ \/ EnrollmentState(signups'[i]) = EnrollmentState(signups[i])
               \/ /\ EnrollmentState(signups[i]) = "Waitlisted"
                  /\ EnrollmentState(signups'[i]) = "Confirmed"
               \/ /\ EnrollmentState(signups[i]) \in {"Confirmed", "Waitlisted"}
                  /\ EnrollmentState(signups'[i]) = "Cancelled"
            /\ ~signups[i].is_waitlist => ~signups'[i].is_waitlist
       /\ \A i \in DOMAIN signups' \ DOMAIN signups :
            /\ EnrollmentState(signups'[i]) \in {"Confirmed", "Waitlisted"}
            /\ signups'[i].cancelled_at = 0
       /\ \A i \in DOMAIN signups' :
            signups'[i].is_cancelled <=> signups'[i].cancelled_at # 0]_vars

\* C22 witness: an enrollment created on the waitlist after the cutoff was
\* promoted and then cancelled: it is cancelled with its waitlist flag clear
\* and a cancellation timestamp
C22_Witness ==
    \E i \in DOMAIN signups :
        /\ signups[i].signup_date > CutoffInstant(signups[i].event_id)
        /\ signups[i].is_cancelled
        /\ ~signups[i].is_waitlist
        /\ signups[i].cancelled_at >= signups[i].signup_date
        /\ response = Response(200, "Signup cancelled successfully")

====
